---------------------------- MODULE Spec2Model ----------------------------
(***************************************************************************)
(* Kranium: the strided Tensor (src/src/tensor/tensor.rs) over the         *)
(* CpuBackend (src/src/tensor/backend/cpu.rs), whose matmul runs one rayon *)
(* task per output index.                                                  *)
(*                                                                         *)
(* A client holds a tensor variable, lhs, and calls the public API on it;  *)
(* the second operand of a binary operation is a tensor it constructs for  *)
(* the call, or lhs itself.  The value a call returns (or the panic it     *)
(* ends in) is kept in out until the client moves it into lhs or drops it. *)
(* Rust indices are 0-based; sequence positions here are 1-based, so       *)
(* buffer element i of the code is buf[i + 1].                             *)
(* Dimension sizes stay far below usize::MAX, so no product overflows.     *)
(***************************************************************************)
EXTENDS Integers, Sequences, FiniteSets, TLC

VARIABLES lhs, out, depth, mm

vars == <<lhs, out, depth, mm>>

\* Bounds of the model.
MaxDim == 2
MaxNdim == 2
MaxSize == 4
TMax == 2
MaxDepth == 1
MaxMN == 2
MaxK == 3

-----------------------------------------------------------------------------
(* The element type T: Numeric.  A saturating integer in -TMax..TMax: its  *)
(* + is commutative but not associative, as floating-point + is, so the    *)
(* order of an accumulation is observable.                                 *)

TVals == (-TMax)..TMax

Sat(v) == IF v > TMax THEN TMax ELSE IF v < -TMax THEN -TMax ELSE v

Abs(v) == IF v < 0 THEN -v ELSE v

Sign(v) == IF v < 0 THEN -1 ELSE IF v > 0 THEN 1 ELSE 0

TDefault == 0

TFromU8(n) == Sat(n)

TAdd(p, q) == Sat(p + q)

TSub(p, q) == Sat(p - q)

TMul(p, q) == Sat(p * q)

\* Division truncates toward zero; a zero divisor saturates (x/0 = +-max, 0/0 = 0).
TDiv(p, q) ==
    IF q = 0 THEN Sign(p) * TMax
    ELSE Sat(Sign(p) * Sign(q) * (Abs(p) \div Abs(q)))

-----------------------------------------------------------------------------
(* Values *)

RECURSIVE Product(_)
Product(shape) ==
    IF shape = <<>> THEN 1 ELSE Head(shape) * Product(Tail(shape))

Filled(v, n) == [i \in 1..n |-> v]

NoTensor == [live |-> FALSE, data |-> <<>>, shape |-> <<>>, strides |-> <<>>]

Tensor(d, s, st) == [live |-> TRUE, data |-> d, shape |-> s, strides |-> st]

\* What a call yields: a value, or a panic (ok = FALSE) that yields nothing.
BufOk(b) == [ok |-> TRUE, buf |-> b]
BufPanic == [ok |-> FALSE, buf |-> <<>>]
TOk(t) == [ok |-> TRUE, t |-> t]
TPanic == [ok |-> FALSE, t |-> NoTensor]
IdxOk(i) == [ok |-> TRUE, idx |-> i]
IdxPanic == [ok |-> FALSE, idx |-> 0]

StrOk(st) == [ok |-> TRUE, strides |-> st]
StrPanic == [ok |-> FALSE, strides |-> <<>>]
ValOk(v) == [ok |-> TRUE, val |-> v]
ValPanic == [ok |-> FALSE, val |-> 0]

-----------------------------------------------------------------------------
(* CpuBackend: allocate, zeros, ones and the element-wise kernels *)

\* A buffer with the capacity asked for and no element in it.
AllocateCapacityOnly(shape) == <<>>

BackendAllocate(shape) == Filled(TDefault, Product(shape))

BackendZeros(shape) == Filled(TDefault, Product(shape))

BackendOnes(shape) == Filled(TFromU8(1), Product(shape))

BackendAdd(a, b) ==
    IF Len(a) # Len(b) THEN BufPanic
    ELSE BufOk([i \in 1..Len(a) |-> TAdd(a[i], b[i])])

\* b - a in place of a - b.
SubSwapped(a, b) ==
    IF Len(a) # Len(b) THEN BufPanic
    ELSE BufOk([i \in 1..Len(a) |-> TSub(b[i], a[i])])

BackendSub(a, b) ==
    IF Len(a) # Len(b) THEN BufPanic
    ELSE BufOk([i \in 1..Len(a) |-> TSub(a[i], b[i])])

BackendMul(a, b) ==
    IF Len(a) # Len(b) THEN BufPanic
    ELSE BufOk([i \in 1..Len(a) |-> TMul(a[i], b[i])])

BackendDiv(a, b) ==
    IF Len(a) # Len(b) THEN BufPanic
    ELSE BufOk([i \in 1..Len(a) |-> TDiv(a[i], b[i])])

BackendElementwise(op, a, b) ==
    CASE op = "add" -> BackendAdd(a, b)
      [] op = "sub" -> BackendSub(a, b)
      [] op = "mul" -> BackendMul(a, b)
      [] op = "div" -> BackendDiv(a, b)

-----------------------------------------------------------------------------
(* CpuBackend::matmul: the three assertions, then one task per index of    *)
(* 0..m*n, each running the closure; collect puts the value of the task of *)
(* index p at position p of the result.                                    *)

MatmulAsserts(a_shape, b_shape) ==
    /\ Len(a_shape) = 2
    /\ Len(b_shape) = 2
    /\ a_shape[2] = b_shape[1]

\* for l in 0..k { sum += a[i*k + l] * b[l*n + j] }, from l on.
RECURSIVE CellLoop(_, _, _, _, _, _, _, _)
CellLoop(a, b, i, j, k, n, l, sum) ==
    IF l >= k THEN sum
    ELSE CellLoop(a, b, i, j, k, n, l + 1,
                  TAdd(sum, TMul(a[i * k + l + 1], b[l * n + j + 1])))

\* The accumulation run from l = k - 1 down to 0.
RECURSIVE CellLoopDescending(_, _, _, _, _, _, _, _)
CellLoopDescending(a, b, i, j, k, n, l, sum) ==
    IF l < 0 THEN sum
    ELSE CellLoopDescending(a, b, i, j, k, n, l - 1,
                            TAdd(sum, TMul(a[i * k + l + 1], b[l * n + j + 1])))

MatmulCellDescending(a, b, k, n, index) ==
    CellLoopDescending(a, b, index \div n, index % n, k, n, k - 1, TDefault)

\* The closure |index| { ... sum } of the parallel map.
MatmulCell(a, b, k, n, index) ==
    CellLoop(a, b, index \div n, index % n, k, n, 0, TDefault)

\* The values pushed in the order the tasks complete.
CollectInCompletionOrder(index, ndone) == ndone

\* The output position collect gives to the task of this index; ndone is the
\* number of tasks that completed before it.
CollectSlot(index, ndone) == index

-----------------------------------------------------------------------------
(* Tensor *)

\* for i in (0..shape.len()-1).rev() { strides[i] = strides[i+1] * shape[i+1] },
\* from i down (p = i + 1 is the 1-based position).
RECURSIVE StridesLoop(_, _, _)
StridesLoop(shape, strides, p) ==
    IF p < 1 THEN strides
    ELSE StridesLoop(shape,
                     [strides EXCEPT ![p] = strides[p + 1] * shape[p + 1]],
                     p - 1)

\* shape.len() - 1 on an empty shape underflows usize: a panic in a build with
\* overflow checks, and otherwise a range up to usize::MAX whose first step
\* indexes the empty strides out of bounds, a panic too.
ComputeStrides(shape) ==
    IF Len(shape) - 1 < 0 THEN StrPanic
    ELSE StrOk(StridesLoop(shape, Filled(1, Len(shape)), Len(shape) - 1))

\* The struct literal that ends every constructor, after the buffer is made.
Construct(data, shape) ==
    LET st == ComputeStrides(shape)
    IN  IF st.ok THEN TOk(Tensor(data, shape, st.strides)) ELSE TPanic

TensorNew(shape) == Construct(BackendAllocate(shape), shape)

TensorZeros(shape) == Construct(BackendZeros(shape), shape)

TensorOnes(shape) == Construct(BackendOnes(shape), shape)

TensorFromData(data, shape) ==
    IF Len(data) # Product(shape) THEN TPanic ELSE Construct(data, shape)

Size(t) == Len(t.data)

Ndim(t) == Len(t.shape)

TensorReshape(t, new_shape) ==
    IF Size(t) # Product(new_shape) THEN TPanic
    ELSE TensorFromData(t.data, new_shape)

RECURSIVE FlatLoop(_, _, _, _)
FlatLoop(t, indices, i, flat_idx) ==
    IF i > Len(indices) THEN flat_idx
    ELSE FlatLoop(t, indices, i + 1, flat_idx + indices[i] * t.strides[i])

\* The indices summed without their strides.
GetFlatIndexNoStrides(t, indices) ==
    IF Len(indices) # Ndim(t) THEN IdxPanic
    ELSE IF \E i \in 1..Len(indices) : ~(indices[i] < t.shape[i]) THEN IdxPanic
    ELSE IdxOk(FlatLoop([t EXCEPT !.strides = Filled(1, Len(indices))], indices, 1, 0))

GetFlatIndex(t, indices) ==
    IF Len(indices) # Ndim(t) THEN IdxPanic
    ELSE IF \E i \in 1..Len(indices) : ~(indices[i] < t.shape[i]) THEN IdxPanic
    ELSE IdxOk(FlatLoop(t, indices, 1, 0))

\* The shapes left unchecked: only the backend's length check is made.
ElementwiseNoShapeCheck(op, t, other) ==
    LET r == BackendElementwise(op, t.data, other.data)
    IN  IF r.ok THEN TensorFromData(r.buf, t.shape) ELSE TPanic

TensorElementwise(op, t, other) ==
    IF t.shape # other.shape THEN TPanic
    ELSE LET r == BackendElementwise(op, t.data, other.data)
         IN  IF r.ok THEN TensorFromData(r.buf, t.shape) ELSE TPanic

\* The three assertions of Tensor::matmul, before the backend is called.
TensorMatmulAsserts(t, other) ==
    /\ Ndim(t) = 2
    /\ Ndim(other) = 2
    /\ t.shape[2] = other.shape[1]

\* self.data[idx] panics when idx is outside the buffer.
TensorGet(t, indices) ==
    LET f == GetFlatIndex(t, indices)
    IN  IF f.ok /\ f.idx < Len(t.data) THEN ValOk(t.data[f.idx + 1]) ELSE ValPanic

TensorSet(t, indices, value) ==
    LET f == GetFlatIndex(t, indices)
    IN  IF f.ok /\ f.idx < Len(t.data)
        THEN TOk([t EXCEPT !.data[f.idx + 1] = value])
        ELSE TPanic

\* The data copied in its own order.
TransposeNoPermute(t) == t.data

\* for j in 0..shape[1] { for i in 0..shape[0] { push(data[i*shape[1] + j]) } }:
\* the push number p (from 0) is the one of j = p / shape[0], i = p % shape[0].
TransposeData(t) ==
    [p \in 1..(t.shape[2] * t.shape[1]) |->
        t.data[((p - 1) % t.shape[1]) * t.shape[2] + ((p - 1) \div t.shape[1]) + 1]]

TensorTranspose(t) ==
    IF Ndim(t) # 2 THEN TPanic
    ELSE TensorFromData(TransposeData(t), <<t.shape[2], t.shape[1]>>)

TensorClone(t) == Tensor(t.data, t.shape, t.strides)

-----------------------------------------------------------------------------
(* The inputs the client draws *)

AllTuples == UNION {[1..n -> 0..MaxDim] : n \in 0..MaxNdim}

Shapes == {shape \in AllTuples : Product(shape) <= MaxSize}

IndexTuples == AllTuples

\* A buffer of n elements, all different while n allows it.
Ramp(seed, n) == [i \in 1..n |-> ((i * seed + seed) % (2 * TMax + 1)) - TMax]

Seeds == {1, 2}

\* Buffers handed to from_data for a shape: of the length it needs, and one longer.
DataInputs(shape) ==
    {Ramp(1, n) : n \in {Product(shape), Product(shape) + 1}}

Live(rs) == {r.t : r \in {q \in rs : q.ok}}

\* The tensors the constructors return.
Constructed ==
    Live({TensorZeros(shape) : shape \in Shapes}
         \cup {TensorOnes(shape) : shape \in Shapes}
         \cup {TensorFromData(Ramp(seed, Product(shape)), shape) :
                  seed \in Seeds, shape \in Shapes})

\* The second operands of a client that builds them with ones().
OnesOperands == Live({TensorOnes(shape) : shape \in Shapes})

\* The second operands of the same shape as t: t itself and ones(t.shape).
SameShape(t) == {t} \cup Live({TensorOnes(t.shape)})

\* Left matrices [m, k] and right matrices [k, n] for the matrix product, and
\* operands that are no matrices.
LeftMatrices ==
    Live({TensorFromData(Ramp(seed, m * k), <<m, k>>) :
             seed \in Seeds, m \in 0..MaxMN, k \in 0..MaxK})

RightMatrices ==
    Live({TensorFromData(Ramp(seed, k * n), <<k, n>>) :
             seed \in Seeds, k \in 0..MaxK, n \in 0..MaxMN})

NonMatrices ==
    Live({TensorOnes(<<MaxK>>), TensorOnes(<<1, MaxK, 1>>)})

ElementwiseOps == {"add", "sub", "mul", "div"}

ConstructorOps == {"new", "zeros", "ones", "from_data"}

-----------------------------------------------------------------------------
(* State *)

\* out: the last call, its arguments (shape, idx, value, data, other; pre is the
\* tensor before a set) and what it returned (ok; t, buf or val).
Idle ==
    [op |-> "none", ok |-> TRUE, t |-> NoTensor, buf |-> <<>>, val |-> 0,
     shape |-> <<>>, idx |-> <<>>, value |-> 0, data |-> <<>>,
     other |-> NoTensor, pre |-> NoTensor, writes |-> <<>>]

Returned(op, r) == [Idle EXCEPT !.op = op, !.ok = r.ok, !.t = r.t]

\* mm: the backend matmul in flight: the borrowed inputs, the tasks not yet
\* run, the result buffer being collected and the writes each position got.
MmIdle ==
    [active |-> FALSE, via |-> "none", other |-> NoTensor, a |-> <<>>,
     a_shape |-> <<>>, b |-> <<>>, b_shape |-> <<>>, pending |-> {},
     buf |-> <<>>, writes |-> <<>>, ndone |-> 0]

MmStarted(via, t, other) ==
    [active |-> TRUE, via |-> via, other |-> other,
     a |-> t.data, a_shape |-> t.shape, b |-> other.data, b_shape |-> other.shape,
     pending |-> 0..(t.shape[1] * other.shape[2] - 1),
     buf |-> Filled(TDefault, t.shape[1] * other.shape[2]),
     writes |-> Filled(0, t.shape[1] * other.shape[2]),
     ndone |-> 0]

\* The buffer handed back without waiting for the tasks.
JoinWithoutBarrier(pending) == TRUE

\* collect returns once no task is left.
JoinReady(pending) == pending = {}

-----------------------------------------------------------------------------
(* The sequential variant of the backend's matmul, as the specification    *)
(* describes it: single-threaded, the output cells visited in row-major    *)
(* order, each cell accumulated in ascending l from the default value.     *)

RECURSIVE SequentialDot(_, _, _, _, _, _, _, _)
SequentialDot(a, b, i, j, k, n, l, sum) ==
    IF l = k THEN sum
    ELSE SequentialDot(a, b, i, j, k, n, l + 1,
                       TAdd(sum, TMul(a[i * k + l + 1], b[l * n + j + 1])))

RECURSIVE SequentialCells(_, _, _, _, _, _, _, _)
SequentialCells(a, b, m, k, n, i, j, result) ==
    IF i = m \/ n = 0 THEN result
    ELSE SequentialCells(a, b, m, k, n,
                         IF j + 1 = n THEN i + 1 ELSE i,
                         IF j + 1 = n THEN 0 ELSE j + 1,
                         Append(result, SequentialDot(a, b, i, j, k, n, 0, TDefault)))

SequentialMatmul(a, a_shape, b, b_shape) ==
    IF Len(a_shape) # 2 \/ Len(b_shape) # 2 THEN BufPanic
    ELSE IF a_shape[2] # b_shape[1] THEN BufPanic
    ELSE BufOk(SequentialCells(a, b, a_shape[1], a_shape[2], b_shape[2], 0, 0, <<>>))

-----------------------------------------------------------------------------

\* A call is made once the result of the one before was moved or dropped.
CanCall == ~mm.active /\ out.op = "none"

Init ==
    /\ lhs = NoTensor
    /\ out = Idle
    /\ depth = 0
    /\ mm = MmIdle

-----------------------------------------------------------------------------
(* Actions: one per public operation *)

New(shape) ==
    /\ CanCall
    /\ out' = [Returned("new", TensorNew(shape)) EXCEPT !.shape = shape]
    /\ UNCHANGED <<lhs, depth, mm>>

Zeros(shape) ==
    /\ CanCall
    /\ out' = [Returned("zeros", TensorZeros(shape)) EXCEPT !.shape = shape]
    /\ UNCHANGED <<lhs, depth, mm>>

Ones(shape) ==
    /\ CanCall
    /\ out' = [Returned("ones", TensorOnes(shape)) EXCEPT !.shape = shape]
    /\ UNCHANGED <<lhs, depth, mm>>

FromData(data, shape) ==
    /\ CanCall
    /\ out' = [Returned("from_data", TensorFromData(data, shape))
                  EXCEPT !.shape = shape, !.data = data]
    /\ UNCHANGED <<lhs, depth, mm>>

\* The client moves the returned tensor into its variable.
Take ==
    /\ ~mm.active
    /\ out.ok /\ out.t.live
    /\ IF out.op \in ConstructorOps THEN depth' = depth
       ELSE depth < MaxDepth /\ depth' = depth + 1
    /\ lhs' = out.t
    /\ out' = Idle
    /\ UNCHANGED mm

\* The client drops what the call returned.
Drop ==
    /\ ~mm.active
    /\ out.op # "none"
    /\ out' = Idle
    /\ UNCHANGED <<lhs, depth, mm>>

\* lhs.add(&other), lhs.sub(&other), lhs.mul(&other), lhs.div(&other)
Elementwise(op, other) ==
    /\ CanCall
    /\ lhs.live
    /\ out' = [Returned(op, TensorElementwise(op, lhs, other)) EXCEPT !.other = other]
    /\ UNCHANGED <<lhs, depth, mm>>

\* backend.add(lhs.data(), other.data()) and the like, called on the buffers.
BackendCall(op, other) ==
    /\ CanCall
    /\ lhs.live
    /\ LET r == BackendElementwise(op, lhs.data, other.data)
       IN  out' = [Idle EXCEPT !.op = "backend_" \o op, !.ok = r.ok, !.buf = r.buf,
                               !.other = other]
    /\ UNCHANGED <<lhs, depth, mm>>

\* lhs.matmul(&other): the assertions, then the backend's parallel matmul starts.
Matmul(other) ==
    /\ CanCall
    /\ lhs.live
    /\ IF TensorMatmulAsserts(lhs, other) /\ MatmulAsserts(lhs.shape, other.shape)
       THEN /\ mm' = MmStarted("matmul", lhs, other)
            /\ out' = out
       ELSE /\ mm' = mm
            /\ out' = [Returned("matmul", TPanic) EXCEPT !.other = other]
    /\ UNCHANGED <<lhs, depth>>

\* backend.matmul(lhs.data(), lhs.shape(), other.data(), other.shape())
BackendMatmul(other) ==
    /\ CanCall
    /\ lhs.live
    /\ IF MatmulAsserts(lhs.shape, other.shape)
       THEN /\ mm' = MmStarted("backend_matmul", lhs, other)
            /\ out' = out
       ELSE /\ mm' = mm
            /\ out' = [Idle EXCEPT !.op = "backend_matmul", !.ok = FALSE,
                                   !.other = other]
    /\ UNCHANGED <<lhs, depth>>

\* A worker runs the task of one index and collect stores its value.
MatmulTask(index) ==
    /\ mm.active
    /\ index \in mm.pending
    /\ LET pos == CollectSlot(index, mm.ndone) + 1
           v == MatmulCell(mm.a, mm.b, mm.a_shape[2], mm.b_shape[2], index)
       IN  mm' = [mm EXCEPT !.pending = @ \ {index},
                            !.buf = [q \in DOMAIN @ |-> IF q = pos THEN v ELSE @[q]],
                            !.writes = [q \in DOMAIN @ |->
                                           IF q = pos THEN @[q] + 1 ELSE @[q]],
                            !.ndone = @ + 1]
    /\ UNCHANGED <<lhs, out, depth>>

\* The join: the buffer goes back to the caller; Tensor::matmul wraps it.
MatmulJoin ==
    /\ mm.active
    /\ JoinReady(mm.pending)
    /\ out' = IF mm.via = "matmul"
              THEN [Returned("matmul",
                             TensorFromData(mm.buf, <<mm.a_shape[1], mm.b_shape[2]>>))
                       EXCEPT !.buf = mm.buf, !.writes = mm.writes,
                              !.other = mm.other]
              ELSE [Idle EXCEPT !.op = "backend_matmul", !.buf = mm.buf,
                                !.writes = mm.writes, !.other = mm.other]
    /\ mm' = MmIdle
    /\ UNCHANGED <<lhs, depth>>

Reshape(new_shape) ==
    /\ CanCall
    /\ lhs.live
    /\ out' = [Returned("reshape", TensorReshape(lhs, new_shape))
                  EXCEPT !.shape = new_shape]
    /\ UNCHANGED <<lhs, depth, mm>>

Transpose ==
    /\ CanCall
    /\ lhs.live
    /\ out' = Returned("transpose", TensorTranspose(lhs))
    /\ UNCHANGED <<lhs, depth, mm>>

Clone ==
    /\ CanCall
    /\ lhs.live
    /\ out' = Returned("clone", TOk(TensorClone(lhs)))
    /\ UNCHANGED <<lhs, depth, mm>>

Get(indices) ==
    /\ CanCall
    /\ lhs.live
    /\ LET r == TensorGet(lhs, indices)
       IN  out' = [Idle EXCEPT !.op = "get", !.ok = r.ok, !.val = r.val,
                               !.idx = indices]
    /\ UNCHANGED <<lhs, depth, mm>>

\* lhs.set(indices, value): in place; pre keeps the tensor as it was.
Set(indices, value) ==
    /\ CanCall
    /\ lhs.live
    /\ depth < MaxDepth
    /\ LET r == TensorSet(lhs, indices, value)
       IN  /\ lhs' = IF r.ok THEN r.t ELSE lhs
           /\ depth' = IF r.ok THEN depth + 1 ELSE depth
           /\ out' = [Idle EXCEPT !.op = "set", !.ok = r.ok, !.value = value,
                                  !.idx = indices, !.pre = lhs]
    /\ UNCHANGED mm

\* The client program: any sequence of calls, each result moved or dropped.
Next ==
    \/ \E shape \in Shapes : New(shape)
    \/ \E shape \in Shapes : Zeros(shape)
    \/ \E shape \in Shapes : Ones(shape)
    \/ \E shape \in Shapes : \E data \in DataInputs(shape) : FromData(data, shape)
    \/ Take
    \/ Drop
    \/ \E op \in ElementwiseOps : \E other \in SameShape(lhs) : Elementwise(op, other)
    \/ \E op \in ElementwiseOps : \E other \in SameShape(lhs) : BackendCall(op, other)
    \/ \E other \in OnesOperands \cup {lhs} : Matmul(other)
    \/ \E other \in OnesOperands \cup {lhs} : BackendMatmul(other)
    \/ \E index \in mm.pending : MatmulTask(index)
    \/ MatmulJoin
    \/ \E new_shape \in Shapes : Reshape(new_shape)
    \/ Transpose
    \/ Clone
    \/ \E indices \in IndexTuples : Get(indices)
    \/ \E indices \in IndexTuples : Set(indices, TFromU8(1))

Spec == Init /\ [][Next]_vars

-----------------------------------------------------------------------------
(* One call on a constructed tensor, over every operand and argument drawn *)

InitOp ==
    /\ lhs \in Constructed
    /\ out = Idle
    /\ depth = 0
    /\ mm = MmIdle

NextOp ==
    \/ \E op \in ElementwiseOps : \E other \in Constructed : Elementwise(op, other)
    \/ \E op \in ElementwiseOps : \E other \in Constructed : BackendCall(op, other)
    \/ \E other \in Constructed : Matmul(other)
    \/ \E other \in Constructed : BackendMatmul(other)
    \/ \E index \in mm.pending : MatmulTask(index)
    \/ MatmulJoin
    \/ \E new_shape \in Shapes : Reshape(new_shape)
    \/ Transpose
    \/ Clone
    \/ \E indices \in IndexTuples : Get(indices)
    \/ \E indices \in IndexTuples : \E value \in TVals : Set(indices, value)

OpSpec == InitOp /\ [][NextOp]_vars

-----------------------------------------------------------------------------
(* One matrix product, under every schedule of its tasks *)

InitMatmul ==
    /\ lhs \in LeftMatrices \cup NonMatrices
    /\ out = Idle
    /\ depth = 0
    /\ mm = MmIdle

NextMatmul ==
    \/ \E other \in RightMatrices \cup NonMatrices : Matmul(other)
    \/ \E other \in RightMatrices \cup NonMatrices : BackendMatmul(other)
    \/ \E index \in mm.pending : MatmulTask(index)
    \/ MatmulJoin

MatmulSpec == InitMatmul /\ [][NextMatmul]_vars

-----------------------------------------------------------------------------
(* Properties *)

MatmulOps == {"matmul", "backend_matmul"}

WellFormed(t) ==
    /\ Len(t.data) = Product(t.shape)
    /\ Len(t.strides) = Len(t.shape)
    /\ Len(t.shape) = Ndim(t)

\* The tensor a call was made on: set changes lhs in place and keeps it in pre.
Self == IF out.op = "set" THEN out.pre ELSE lhs

ValidIndex(t, indices) ==
    /\ Len(indices) = Ndim(t)
    /\ \A i \in 1..Len(indices) : indices[i] < t.shape[i]

\* C1: every tensor that exists, whether constructed, returned by an operation,
\* passed as an operand or changed by set, has data.len() = product(shape) and
\* strides.len() = shape.len() = ndim(); the tensor new() returns holds the
\* product(shape) elements that allocate returned.
C1_TensorsWellFormed ==
    /\ \A t \in {lhs, out.t, out.other, out.pre, mm.other} : t.live => WellFormed(t)
    /\ (out.op = "new" /\ out.ok) => Len(out.t.data) = Product(out.shape)

\* A transposed tensor returned after an earlier result was moved into lhs.
C1_Witness ==
    /\ depth >= 1
    /\ out.op = "transpose" /\ out.ok
    /\ out.t.shape = <<2, 2>>
    /\ WellFormed(out.t)

\* The element type's operator an element-wise operation applies.
Apply(op, p, q) ==
    CASE op = "add" -> TAdd(p, q)
      [] op = "sub" -> TSub(p, q)
      [] op = "mul" -> TMul(p, q)
      [] op = "div" -> TDiv(p, q)

Pointwise(op, a, b, r) ==
    /\ Len(r) = Len(a)
    /\ \A i \in 1..Len(a) : r[i] = Apply(op, a[i], b[i])

\* C4: on equal-shaped tensors, add/sub/mul/div return a tensor of the shape
\* and length of the first whose element i is a[i] + b[i], a[i] - b[i],
\* a[i] * b[i], a[i] / b[i]; so do the backend's kernels on equal-length buffers.
C4_ElementwiseLaws ==
    /\ \A op \in ElementwiseOps :
          (out.op = op /\ lhs.shape = out.other.shape) =>
              /\ out.ok
              /\ out.t.shape = lhs.shape
              /\ Pointwise(op, lhs.data, out.other.data, out.t.data)
    /\ \A op \in ElementwiseOps :
          (out.op = "backend_" \o op /\ Len(lhs.data) = Len(out.other.data)) =>
              /\ out.ok
              /\ Pointwise(op, lhs.data, out.other.data, out.buf)

\* A difference of two 2 x 2 tensors that is not their sum.
C4_Witness ==
    /\ out.op = "sub" /\ out.ok
    /\ lhs.shape = <<2, 2>>
    /\ out.t.data # BackendAdd(lhs.data, out.other.data).buf
    /\ out.t.data # lhs.data

\* What each operation requires of its operands and arguments.
PreconditionViolated ==
    CASE out.op \in ElementwiseOps -> Self.shape # out.other.shape
      [] out.op \in {"backend_" \o op : op \in ElementwiseOps} ->
            Len(Self.data) # Len(out.other.data)
      [] out.op \in MatmulOps ->
            \/ Len(Self.shape) # 2
            \/ Len(out.other.shape) # 2
            \/ Self.shape[2] # out.other.shape[1]
      [] out.op \in {"get", "set"} -> ~ValidIndex(Self, out.idx)
      [] OTHER -> FALSE

\* C5: a call whose precondition is violated (unequal buffer lengths, unequal
\* shapes, a matmul operand that is not 2-dimensional or inner dimensions that
\* differ, an index tuple of the wrong length or out of range) panics: it
\* returns no tensor, no buffer and no value, starts no task, and leaves the
\* tensor it was called on as it was.
C5_PreconditionPanics ==
    PreconditionViolated =>
        /\ ~out.ok
        /\ out.t = NoTensor
        /\ out.buf = <<>>
        /\ out.writes = <<>>
        /\ out.val = 0
        /\ ~mm.active
        /\ lhs = Self

\* The backend's add on a buffer of 4 and a buffer of 2 elements.
C5_Witness ==
    /\ out.op = "backend_add"
    /\ ~out.ok
    /\ Len(lhs.data) = 4
    /\ Len(out.other.data) = 2

\* C6: the transpose of a 2-dimensional tensor of shape [r, c] has shape
\* [c, r], its element [j, i] is element [i, j] of the tensor, and its own
\* transpose has the shape and the data of the tensor.
C6_TransposeInvolution ==
    (out.op = "transpose" /\ Ndim(lhs) = 2) =>
        /\ out.ok
        /\ out.t.shape = <<lhs.shape[2], lhs.shape[1]>>
        /\ \A i \in 0..(lhs.shape[1] - 1) : \A j \in 0..(lhs.shape[2] - 1) :
              /\ TensorGet(out.t, <<j, i>>).ok
              /\ TensorGet(out.t, <<j, i>>) = TensorGet(lhs, <<i, j>>)
        /\ LET back == TensorTranspose(out.t)
           IN  /\ back.ok
               /\ back.t.shape = lhs.shape
               /\ back.t.data = lhs.data

\* The transpose of a 2 x 2 tensor whose data it reorders.
C6_Witness ==
    /\ out.op = "transpose" /\ out.ok
    /\ lhs.shape = <<2, 2>>
    /\ out.t.data # lhs.data

\* The transpose of a tensor with no rows.
C6_WitnessEmpty ==
    /\ out.op = "transpose" /\ out.ok
    /\ lhs.shape = <<0, 2>>
    /\ out.t.shape = <<2, 0>>

\* C7: reshape to any shape of the same element count, whatever its number of
\* dimensions, returns a tensor of that shape with the same data in the same
\* order, and reshaping it back gives the shape, strides and data of the tensor.
C7_ReshapeRoundTrip ==
    (out.op = "reshape" /\ Product(out.shape) = Size(lhs)) =>
        /\ out.ok
        /\ out.t.shape = out.shape
        /\ out.t.data = lhs.data
        /\ LET back == TensorReshape(out.t, lhs.shape)
           IN  /\ back.ok
               /\ back.t = lhs

\* C7 for the new shapes of one dimension or more.
C7_ReshapeRoundTripNonScalar ==
    (out.op = "reshape" /\ Product(out.shape) = Size(lhs) /\ Len(out.shape) >= 1) =>
        /\ out.ok
        /\ out.t.shape = out.shape
        /\ out.t.data = lhs.data
        /\ LET back == TensorReshape(out.t, lhs.shape)
           IN  /\ back.ok
               /\ back.t = lhs

\* C8: after set(idx, v) with a valid idx, get(idx) is v, get of every other
\* valid index is what it was, and shape, strides and data length are unchanged.
C8_SetGetFrame ==
    (out.op = "set" /\ ValidIndex(out.pre, out.idx)) =>
        /\ out.ok
        /\ TensorGet(lhs, out.idx) = ValOk(out.value)
        /\ \A other \in IndexTuples :
              (ValidIndex(out.pre, other) /\ other # out.idx) =>
                  /\ TensorGet(lhs, other).ok
                  /\ TensorGet(lhs, other) = TensorGet(out.pre, other)
        /\ lhs.shape = out.pre.shape
        /\ lhs.strides = out.pre.strides
        /\ Len(lhs.data) = Len(out.pre.data)

\* A set in a 2 x 2 tensor that changes the element at [1, 0].
C8_Witness ==
    /\ out.op = "set" /\ out.ok
    /\ out.pre.shape = <<2, 2>>
    /\ out.idx = <<1, 0>>
    /\ TensorGet(out.pre, out.idx).val # out.value

StridesOk(strides, shape) ==
    /\ Len(strides) = Len(shape)
    /\ Len(shape) >= 1 => strides[Len(shape)] = 1
    /\ \A i \in 1..(Len(shape) - 1) : strides[i] = strides[i + 1] * shape[i + 1]

\* C9: compute_strides returns, for a shape of any length n >= 0, n strides
\* with strides[n-1] = 1 and strides[i] = strides[i+1] * shape[i+1]: so new,
\* zeros and ones, which fail nowhere else, return a tensor with these strides.
C9_ComputeStridesTotal ==
    out.op \in {"new", "zeros", "ones"} =>
        /\ out.ok
        /\ StridesOk(out.t.strides, out.shape)

\* C9 for the shapes of one dimension or more.
C9_ComputeStridesNonScalar ==
    (out.op \in {"new", "zeros", "ones"} /\ Len(out.shape) >= 1) =>
        /\ out.ok
        /\ StridesOk(out.t.strides, out.shape)

\* The sum of the first l products of row i of a and column j of b, each
\* added to the sum of those before it, starting from the default value.
RECURSIVE DotAscending(_, _, _, _, _, _, _)
DotAscending(a, b, i, j, k, n, l) ==
    IF l = 0 THEN TDefault
    ELSE TAdd(DotAscending(a, b, i, j, k, n, l - 1),
              TMul(a[i * k + (l - 1) + 1], b[(l - 1) * n + j + 1]))

\* C2: for a of shape [m, k] and b of shape [k, n], matmul returns a buffer of
\* m * n elements, and Tensor::matmul a tensor of shape [m, n] holding it, whose
\* element i*n + j is the sum over l = 0..k-1 of a[i*k + l] * b[l*n + j],
\* accumulated from the default value in ascending l.
C2_MatmulDefinition ==
    (/\ out.op \in MatmulOps
     /\ Len(lhs.shape) = 2 /\ Len(out.other.shape) = 2
     /\ lhs.shape[2] = out.other.shape[1]) =>
        LET m == lhs.shape[1]
            k == lhs.shape[2]
            n == out.other.shape[2]
        IN  /\ out.ok
            /\ Len(out.buf) = m * n
            /\ out.op = "matmul" =>
                  (out.t.live /\ out.t.shape = <<m, n>> /\ out.t.data = out.buf)
            /\ \A i \in 0..(m - 1) : \A j \in 0..(n - 1) :
                  out.buf[i * n + j + 1] =
                      DotAscending(lhs.data, out.other.data, i, j, k, n, k)

\* The product of a 2 x 3 and a 3 x 2 matrix.
C2_Witness ==
    /\ out.op = "matmul" /\ out.ok
    /\ lhs.shape = <<2, 3>>
    /\ out.other.shape = <<3, 2>>
    /\ out.t.shape = <<2, 2>>

\* C3: whatever the order in which the tasks of the parallel matmul ran, the
\* buffer it returns is the buffer of the sequential matmul on the same
\* inputs: the same length and the same value at every position (and it
\* panics where the sequential one does).
C3_ParallelEqualsSequential ==
    out.op \in MatmulOps =>
        LET seq == SequentialMatmul(lhs.data, lhs.shape,
                                    out.other.data, out.other.shape)
        IN  /\ out.ok = seq.ok
            /\ Len(out.buf) = Len(seq.buf)
            /\ out.buf = seq.buf

\* A 2 x 2 product returned, of four different cells.
C3_Witness ==
    /\ out.op = "backend_matmul" /\ out.ok
    /\ lhs.shape = <<2, 3>>
    /\ Len(out.buf) = 4
    /\ out.buf[1] # out.buf[2]
    /\ out.buf[3] # out.buf[4]

\* C10: while the parallel matmul runs, its inputs are the buffers of the two
\* operands, unchanged; the task of index p has written position p, once, with
\* the value of cell (p / n, p % n), and no position was written otherwise; the
\* buffer is returned only when every position was written once.
C10_DisjointWritesAndJoin ==
    /\ mm.active =>
          /\ mm.a = lhs.data /\ mm.a_shape = lhs.shape
          /\ mm.b = mm.other.data /\ mm.b_shape = mm.other.shape
          /\ mm.pending \subseteq 0..(Len(mm.buf) - 1)
          /\ Len(mm.buf) = mm.a_shape[1] * mm.b_shape[2]
          /\ Len(mm.writes) = Len(mm.buf)
          /\ mm.ndone + Cardinality(mm.pending) = Len(mm.buf)
          /\ \A p \in 0..(Len(mm.buf) - 1) :
                IF p \in mm.pending
                THEN mm.writes[p + 1] = 0
                ELSE /\ mm.writes[p + 1] = 1
                     /\ mm.buf[p + 1] =
                           MatmulCell(lhs.data, mm.other.data,
                                      mm.a_shape[2], mm.b_shape[2], p)
    /\ (out.op \in MatmulOps /\ out.ok) =>
          /\ Len(out.writes) = lhs.shape[1] * out.other.shape[2]
          /\ Len(out.buf) = Len(out.writes)
          /\ \A p \in 1..Len(out.writes) : out.writes[p] = 1

\* Two of four tasks have run, the last one first.
C10_Witness ==
    /\ mm.active
    /\ Len(mm.buf) = 4
    /\ mm.pending = {0, 2}
    /\ mm.writes = <<0, 1, 0, 1>>

=============================================================================
